---- MODULE Spec2Model ----
(***************************************************************************)
(* usePrint / handlePrint (kima-print): the print orchestration routine.   *)
(*                                                                         *)
(* One handlePrint call stages a copy of the caller's content in a hidden  *)
(* iframe attached to document.body, arms a deadline timer, and then       *)
(* reacts to three events delivered by the host's single event queue: the  *)
(* iframe window's load signal, its error signal, and the deadline timer.  *)
(* After a successful print trigger a second timer (the grace delay) tears *)
(* the iframe down.  JavaScript runs every handler to completion, so each  *)
(* handler is one action; `log` keeps, per call, the observable steps of   *)
(* the handlers in the order the code performs them.                       *)
(*                                                                         *)
(* The platform (iframe, print dialog) is an opaque source of signals: the *)
(* model delivers a signal whenever the code has a handler registered for  *)
(* it, because the code never unregisters a handler.                       *)
(*                                                                         *)
(* Spec is the program whose callbacks return normally; SpecThrow is the   *)
(* same program when onStart, onSuccess or onError may throw.              *)
(***************************************************************************)
EXTENDS Integers, Sequences, FiniteSets, TLC

VARIABLES
    content,\* the caller's content node: its parent and its markup
    body,   \* the staging iframes currently children of document.body
    calls   \* per handlePrint call: its closure (element, type, options,
            \* timers, handlers), its promise and the log of its steps

vars == <<content, body, calls>>

\* ------------------------------------------------------------------------
\* Bounds and inputs
\* ------------------------------------------------------------------------

\* The handlePrint calls that may be in flight together.
Calls == {"A", "B"}

\* How many times the platform may deliver the error signal to one call.
MaxErrors == 2

\* `timeout = 5000` default of the options destructuring.
DefaultTimeout == 5000

\* A caller-chosen deadline, different from the default.
CustomTimeout == 100

\* contentRef: null, an element, a ref holding an element, a ref holding null.
ContentRefs == {"null", "element", "refElement", "refNull"}

PrintTypes == {"a4", "thermal"}

Callbacks == {"onStart", "onSuccess", "onError"}

\* options: which callbacks are given, the timeout (<<>> when omitted), and
\* which of the given callbacks throw when invoked.  Here every callback
\* returns normally.
Options ==
    [given : {{}, Callbacks}, timeout : {<<>>, <<CustomTimeout>>}, throws : {{}}]

\* options whose callbacks are all given and any of them may throw.
ThrowingOptions ==
    [given : {Callbacks}, timeout : {<<>>, <<CustomTimeout>>},
     throws : SUBSET Callbacks]

\* The value a throwing callback throws.
CallbackError == "Error: callback failed"

\* The content node the caller wants printed, mounted in the caller's page.
ContentNode == [parent |-> "container", innerHTML |-> "<h1>Content to print</h1>"]

\* What the platform does with the freshly attached iframe.
Platforms == {"ok", "noDocument", "noWindow"}

\* The value thrown by iframeWindow.print() when it throws.
PrintErrors == {"NotAllowedError"}

\* The value the error signal carries.
ErrorEvents == {"Script error."}

\* ------------------------------------------------------------------------
\* Values
\* ------------------------------------------------------------------------

\* const { ..., timeout = 5000 } = options
TimeoutOf(options) ==
    IF options.timeout = <<>> THEN DefaultTimeout ELSE options.timeout[1]

\* contentRef && (contentRef.current || contentRef): a ref whose current is
\* null falls through to the ref object itself, which is truthy and no node.
Element(contentRef) ==
    CASE contentRef = "null"       -> "none"
      [] contentRef = "element"    -> "node"
      [] contentRef = "refElement" -> "node"
      [] contentRef = "refNull"    -> "refObject"

\* type.toUpperCase()
ToUpperCase(type) == IF type = "a4" THEN "A4" ELSE "THERMAL"

\* The @page size of the stylesheet selected by `type`.
PrintStyles(type) == IF type = "a4" THEN "size: A4" ELSE "size: 80mm auto"

\* Messages are sequences of text pieces, as the template literals build them.
NotFoundMsg == <<"Elemento para impressao nao encontrado!">>
\* Variant: the message names the default deadline, not the call's.
TimeoutMsgDefault(timeout) ==
    <<"Timeout: Impressao nao foi concluida em ", ToString(DefaultTimeout), "ms">>

TimeoutMsg(timeout) ==
    <<"Timeout: Impressao nao foi concluida em ", ToString(timeout), "ms">>
NoDocumentMsg == <<"Nao foi possivel acessar o documento do iframe">>
NoWindowMsg == <<"Nao foi possivel acessar a janela do iframe">>
SuccessMsg(type) ==
    <<"Documento ", ToUpperCase(type), " enviado para impressao com sucesso!">>
PrintErrorMsg(printError) == <<"Erro ao executar impressao: ", printError>>
IframeErrorMsg(error) == <<"Erro no iframe: ", error>>
UnexpectedMsg(error) == <<"Erro inesperado: ", error>>

\* Variant: a failure result whose message is a fixed text, not the error.
FailureGeneric(errorMsg) ==
    [success |-> FALSE, error |-> errorMsg, message |-> <<"Falha na impressao">>]

\* { success: false, error: errorMsg, message: errorMsg }
Failure(errorMsg) == [success |-> FALSE, error |-> errorMsg, message |-> errorMsg]

\* { success: true, message: successMsg }
Success(successMsg) == [success |-> TRUE, message |-> successMsg]

NoCall ==
    [called |-> FALSE, element |-> "none", type |-> "a4",
     options |-> [given |-> {}, timeout |-> <<>>, throws |-> {}],
     timer |-> "none", grace |-> "none", handlers |-> FALSE,
     loadFired |-> FALSE, errCount |-> 0,
     clone |-> [parent |-> "none", innerHTML |-> ""],
     promise |-> [state |-> "none"], written |-> <<>>, log |-> <<>>]

\* ------------------------------------------------------------------------
\* Steps of the handlers.  x = [id, n, b, k, thrown]: the call, the content
\* node, document.body, the call's state while one handler runs, and the
\* exception that is propagating (<<>> when none).  A step is skipped while
\* an exception propagates.
\* ------------------------------------------------------------------------

Ctx(c) == [id |-> c, n |-> content, b |-> body, k |-> calls[c], thrown |-> <<>>]

Log(x, ev, arg) == [x EXCEPT !.k.log = Append(@, [ev |-> ev, arg |-> arg])]

Raised(x) == x.thrown # <<>>

\* throw error
Throw(x, error) == [x EXCEPT !.thrown = <<error>>]

\* Entering a catch block: the exception stops propagating.
Caught(x) == [x EXCEPT !.thrown = <<>>]

\* Invoking a given callback: it is entered (logged), and throws if it is one
\* of the throwing callbacks.
Invoke(x, cb, arg) ==
    CASE Raised(x) -> x
      [] cb \notin x.k.options.given -> x
      [] cb \in x.k.options.throws ->
            Throw(Log(x, cb, arg), CallbackError)
      [] OTHER -> Log(x, cb, arg)

\* onStart?.()
InvokeOnStart(x) == Invoke(x, "onStart", <<>>)

\* onSuccess?.(successMsg)
InvokeOnSuccess(x, msg) == Invoke(x, "onSuccess", msg)

\* onError?.(errorMsg)
InvokeOnError(x, msg) == Invoke(x, "onError", msg)

\* Variant: the iframe is created but never appended to document.body.
AppendChildSkipped(x) == Log(x, "appendChild", <<>>)

\* document.body.appendChild(iframe)
AppendChild(x) ==
    IF Raised(x) THEN x
    ELSE Log([x EXCEPT !.b = @ \cup {x.id}], "appendChild", <<>>)

\* Variant: teardown that empties document.body of every staging iframe.
CleanupAll(x) ==
    LET y == Log(x, "cleanup", <<>>)
    IN  IF x.id \in y.b
        THEN Log([y EXCEPT !.b = {}], "removeChild", <<>>)
        ELSE y

\* cleanup: remove the iframe if document.body still contains it.
Cleanup(x) ==
    LET y == Log(x, "cleanup", <<>>)
    IN  CASE Raised(x) -> x
          [] x.id \in y.b -> Log([y EXCEPT !.b = @ \ {x.id}], "removeChild", <<>>)
          [] OTHER -> y

\* timeoutId = setTimeout(..., timeout)
SetTimeout(x) ==
    IF Raised(x) THEN x
    ELSE Log([x EXCEPT !.k.timer = "armed"], "setTimeout", <<>>)

\* Variant: a clearTimeout that leaves the timer pending (a stale timer id).
ClearTimeoutStale(x) == Log(x, "clearTimeout", <<>>)

\* clearTimeout(timeoutId): cancels a pending timer, otherwise does nothing.
ClearTimeout(x) ==
    IF Raised(x) THEN x
    ELSE Log([x EXCEPT !.k.timer = IF @ = "armed" THEN "cleared" ELSE @],
             "clearTimeout", <<>>)

\* setTimeout(cleanup, 1000)
ScheduleCleanup(x) ==
    IF Raised(x) THEN x
    ELSE Log([x EXCEPT !.k.grace = "armed"], "scheduleCleanup", <<>>)

\* Variant: a promise whose value the latest resolve call overwrites.
ResolveOverwrite(x, result) ==
    [Log(x, "resolve", result.message)
        EXCEPT !.k.promise = [state |-> "resolved", value |-> result]]

\* resolve(result): settles a pending promise, otherwise does nothing.
Resolve(x, result) ==
    LET y == Log(x, "resolve", result.message)
    IN  CASE Raised(x) -> x
          [] y.k.promise.state = "pending" ->
                [y EXCEPT !.k.promise = [state |-> "resolved", value |-> result]]
          [] OTHER -> y

\* An exception leaving the promise executor, or the async function itself,
\* rejects the returned promise.
Reject(x, reason) ==
    LET y == Log(x, "reject", <<reason>>)
    IN  IF y.k.promise.state = "pending"
        THEN [y EXCEPT !.k.promise = [state |-> "rejected", reason |-> reason]]
        ELSE y

\* The handler has run to its end.  What it threw and nobody caught is
\* reported by the platform and changes nothing of the program's state.
Commit(x) ==
    /\ content' = x.n
    /\ body' = x.b
    /\ calls' = [calls EXCEPT ![x.id] = x.k]

\* Variant: the content node itself is moved into the staging iframe.
MoveNode(x) ==
    Log([x EXCEPT !.k.clone = [parent |-> x.id, innerHTML |-> x.n.innerHTML],
                  !.n.parent = x.id],
        "cloneNode", <<>>)

\* contentClone = element.cloneNode(true): a detached deep copy.
CloneNode(x) ==
    IF Raised(x) THEN x
    ELSE Log([x EXCEPT !.k.clone = [parent |-> "none", innerHTML |-> x.n.innerHTML]],
             "cloneNode", <<>>)

\* iframeDoc.write(`<html><head>${printStyles}...<body>${contentClone.innerHTML}`)
\* followed by iframeDoc.close()
Write(x) ==
    IF Raised(x) THEN x
    ELSE Log([x EXCEPT !.k.written =
                  <<PrintStyles(x.k.type), x.k.clone.innerHTML>>],
             "write", <<>>)

\* Variant: the not-found branch returns without reporting to onError.
NotFoundSilent(x) == Resolve(x, Failure(NotFoundMsg))

\* The `if (!element)` branch: report and return the not-found result.
NotFound(x) == Resolve(InvokeOnError(x, NotFoundMsg), Failure(NotFoundMsg))

\* The `if (!iframeDoc)` and `if (!iframeWindow)` branches.
HandleUnavailable(x, errorMsg) ==
    Resolve(InvokeOnError(Cleanup(ClearTimeout(x)), errorMsg), Failure(errorMsg))

\* The promise executor, entered with a truthy `element`.
Executor(x, platform) ==
    LET attached == AppendChild(x)
    IN  IF x.k.element # "node"
        THEN \* element.cloneNode is not a function: TypeError in the executor
             Reject(attached, "TypeError")
        ELSE LET armed == SetTimeout(CloneNode(attached))
             IN  CASE platform = "noDocument" ->
                        HandleUnavailable(armed, NoDocumentMsg)
                   [] platform = "noWindow" ->
                        HandleUnavailable(Write(armed), NoWindowMsg)
                   [] platform = "ok" ->
                        [Write(armed) EXCEPT !.k.handlers = TRUE]

\* The timeout handler.
TimeoutHandler(x) ==
    LET timeoutMsg == TimeoutMsg(TimeoutOf(x.k.options))
    IN  Resolve(InvokeOnError(Cleanup(x), timeoutMsg), Failure(timeoutMsg))

\* iframeWindow.onload: focus, print, then the success steps; the catch
\* block when print() throws.  printError = "" when print() returns.
\* Whatever the try block throws, print() or a later statement of the block,
\* reaches the catch block as its printError.
OnloadHandler(x, printError) ==
    LET printed == Log(x, "print", IF printError = "" THEN <<>> ELSE <<printError>>)
        successMsg == SuccessMsg(x.k.type)
        tried == IF printError = ""
                 THEN Resolve(ScheduleCleanup(ClearTimeout(
                          InvokeOnSuccess(printed, successMsg))),
                          Success(successMsg))
                 ELSE Throw(printed, printError)
    IN  IF Raised(tried)
        THEN LET errorMsg == PrintErrorMsg(tried.thrown[1])
             IN  Resolve(InvokeOnError(Cleanup(ClearTimeout(Caught(tried))),
                                       errorMsg),
                         Failure(errorMsg))
        ELSE tried

\* Variant: onerror notifies the caller before clearing the timer and
\* tearing the iframe down.
OnerrorNotifyFirst(x, error) ==
    LET errorMsg == IframeErrorMsg(error)
    IN  Resolve(Cleanup(ClearTimeout(InvokeOnError(x, errorMsg))),
                Failure(errorMsg))

\* iframeWindow.onerror
OnerrorHandler(x, error) ==
    LET errorMsg == IframeErrorMsg(error)
    IN  Resolve(InvokeOnError(Cleanup(ClearTimeout(x)), errorMsg),
                Failure(errorMsg))

\* ------------------------------------------------------------------------
\* Actions
\* ------------------------------------------------------------------------

Init ==
    /\ content = ContentNode
    /\ body = {}
    /\ calls = [c \in Calls |-> NoCall]

\* An exception that leaves the executor of `new Promise`, or the body of the
\* async function, rejects the promise the caller holds.
RejectIfRaised(x) ==
    IF Raised(x) THEN Reject(Caught(x), x.thrown[1]) ELSE x

\* The outer try block: onStart, then the promise and its executor; the
\* outer catch block when onStart throws.
TryPrint(x, platform) ==
    LET started == InvokeOnStart(x)
    IN  IF Raised(started)
        THEN LET errorMsg == UnexpectedMsg(started.thrown[1])
             IN  Resolve(InvokeOnError(Caught(started), errorMsg),
                         Failure(errorMsg))
        ELSE RejectIfRaised(Executor(started, platform))

\* handlePrint(contentRef, type, options) up to its first suspension.
HandlePrint(c, contentRef, type, options, platform) ==
    /\ ~calls[c].called
    /\ LET x == [id |-> c, n |-> content, b |-> body, thrown |-> <<>>,
                 k |-> [NoCall EXCEPT !.called = TRUE,
                                      !.element = Element(contentRef),
                                      !.type = type,
                                      !.options = options,
                                      !.promise = [state |-> "pending"]]]
       IN  IF x.k.element = "none"
           THEN Commit(RejectIfRaised(NotFound(x)))
           ELSE Commit(RejectIfRaised(TryPrint(x, platform)))

\* The deadline timer fires.
Timeout(c) ==
    /\ calls[c].timer = "armed"
    /\ Commit(TimeoutHandler([Ctx(c) EXCEPT !.k.timer = "fired"]))

\* The iframe window's load signal; a document loads once.
Load(c, printError) ==
    /\ calls[c].handlers
    /\ ~calls[c].loadFired
    /\ Commit(OnloadHandler([Ctx(c) EXCEPT !.k.loadFired = TRUE], printError))

\* The iframe window's error signal.
Error(c, error) ==
    /\ calls[c].handlers
    /\ calls[c].errCount < MaxErrors
    /\ Commit(OnerrorHandler([Ctx(c) EXCEPT !.k.errCount = @ + 1], error))

\* The grace-delay timer fires: setTimeout(cleanup, 1000).
Grace(c) ==
    /\ calls[c].grace = "armed"
    /\ Commit(Cleanup([Ctx(c) EXCEPT !.k.grace = "fired"]))

Next ==
    \/ \E c \in Calls, r \in ContentRefs, t \in PrintTypes,
          o \in Options, p \in Platforms : HandlePrint(c, r, t, o, p)
    \/ \E c \in Calls : Timeout(c)
    \/ \E c \in Calls, e \in PrintErrors \cup {""} : Load(c, e)
    \/ \E c \in Calls, e \in ErrorEvents : Error(c, e)
    \/ \E c \in Calls : Grace(c)

Spec == Init /\ [][Next]_vars

\* The same program when the caller's callbacks may throw.
NextThrow ==
    \/ \E c \in Calls, r \in ContentRefs, t \in PrintTypes,
          o \in ThrowingOptions, p \in Platforms : HandlePrint(c, r, t, o, p)
    \/ \E c \in Calls : Timeout(c)
    \/ \E c \in Calls, e \in PrintErrors \cup {""} : Load(c, e)
    \/ \E c \in Calls, e \in ErrorEvents : Error(c, e)
    \/ \E c \in Calls : Grace(c)

SpecThrow == Init /\ [][NextThrow]_vars

\* ------------------------------------------------------------------------
\* Reading the log
\* ------------------------------------------------------------------------

Steps(c, evs) == {i \in DOMAIN calls[c].log : calls[c].log[i].ev \in evs}

Count(c, ev) == Cardinality(Steps(c, {ev}))

First(S) == CHOOSE i \in S : \A j \in S : i <= j

Live(c) == calls[c].called /\ calls[c].element = "node"

Resolved(c) == calls[c].promise.state = "resolved"

\* A failure result: success false, non-empty error, message equal to it.
IsFailure(result) ==
    /\ ~result.success
    /\ "error" \in DOMAIN result
    /\ result.error # <<>>
    /\ \E i \in DOMAIN result.error : result.error[i] # ""
    /\ result.message = result.error

Mentions(msg, text) == \E i \in DOMAIN msg : msg[i] = text

\* ------------------------------------------------------------------------
\* Claims
\* ------------------------------------------------------------------------

\* C1: for a call with a live content node and all callbacks given, onStart
\* is invoked before any terminal callback, at most one terminal callback
\* (onSuccess or onError) is ever invoked, and once the promise is settled
\* exactly one has been.
C1_StartThenOneTerminal ==
    \A c \in Calls :
        (Live(c) /\ calls[c].options.given = Callbacks) =>
            LET terminal == Steps(c, {"onSuccess", "onError"})
            IN  /\ Cardinality(terminal) <= 1
                /\ \A i \in terminal : \E j \in Steps(c, {"onStart"}) : j < i
                /\ Resolved(c) => Cardinality(terminal) = 1

\* C2: the promise returned by handlePrint is never rejected.
C2_NeverRejected ==
    \A c \in Calls : calls[c].promise.state # "rejected"

\* C3: every call settles with a PrintResult provided an armed timer fires:
\* a call with no deadline timer pending has its promise resolved.
C3_SettlesWithResult ==
    \A c \in Calls :
        (calls[c].called /\ calls[c].timer # "armed") => Resolved(c)

\* C4: a ref whose current is null is content-not-found: the promise is
\* resolved with a failure result and no iframe is ever attached.
C4_RefNullIsNotFound ==
    \A c \in Calls :
        (calls[c].called /\ calls[c].element = "refObject") =>
            /\ Resolved(c)
            /\ IsFailure(calls[c].promise.value)
            /\ Count(c, "appendChild") = 0
            /\ c \notin body

\* C5: handlePrint(null) resolves with a failure result whose message equals
\* its non-empty error; onError, if given, is invoked with that error before
\* the promise resolves; no iframe is created, no timer is armed and onStart
\* is not invoked.
C5_NullContent ==
    \A c \in Calls :
        (calls[c].called /\ calls[c].element = "none") =>
            /\ Resolved(c)
            /\ IsFailure(calls[c].promise.value)
            /\ calls[c].log =
                 (IF "onError" \in calls[c].options.given
                  THEN <<[ev |-> "onError", arg |-> calls[c].promise.value.error]>>
                  ELSE <<>>)
                 \o <<[ev |-> "resolve", arg |-> calls[c].promise.value.message]>>
            /\ c \notin body
            /\ calls[c].timer = "none"
            /\ calls[c].grace = "none"

C5_Witness ==
    \E c \in Calls :
        /\ calls[c].called
        /\ calls[c].element = "none"
        /\ "onError" \in calls[c].options.given

\* C6: no execution leaves an attached iframe attached forever: timers are
\* the only steps that are bound to happen, so an attached iframe always has
\* a pending timer (deadline or grace delay) whose handler detaches it.
C6_AttachedHasPendingTeardown ==
    \A c \in Calls :
        c \in body => (calls[c].timer = "armed" \/ calls[c].grace = "armed")

\* The removal guard of cleanup: per call the iframe is removed at most
\* once, only after it was attached, and exactly once as soon as cleanup has
\* been invoked, however often cleanup is invoked afterwards.
RemovalGuarded ==
    \A c \in Calls :
        /\ Count(c, "removeChild") <= 1
        /\ \A i \in Steps(c, {"removeChild"}) :
               \E j \in Steps(c, {"appendChild"}) : j < i
        /\ Count(c, "cleanup") >= 1 =>
               (Count(c, "removeChild") = 1 /\ c \notin body)

\* C7: per call the staging iframe is removed exactly once whichever way the
\* call ends: never twice and never while detached, and a call that attached
\* an iframe and has no timer left to run has removed it once.
C7_RemovedExactlyOnce ==
    /\ RemovalGuarded
    /\ \A c \in Calls :
           ( /\ Count(c, "appendChild") >= 1
             /\ calls[c].timer # "armed"
             /\ calls[c].grace # "armed" ) => Count(c, "removeChild") = 1

\* C8: the promise settles at most once: its value is the result passed to
\* the first resolve call of the call's history, whatever later exit paths
\* pass to resolve.
C8_FirstResolveWins ==
    \A c \in Calls :
        LET rs == Steps(c, {"resolve"})
        IN  rs # {} =>
              LET m == calls[c].log[First(rs)].arg
              IN  /\ Resolved(c)
                  /\ calls[c].promise.value.message = m
                  /\ calls[c].promise.value.success
                       <=> (m = SuccessMsg(calls[c].type))
                  /\ ~calls[c].promise.value.success
                       => calls[c].promise.value = Failure(m)

C8_Witness ==
    \E c \in Calls :
        \E i, j \in Steps(c, {"resolve"}) :
            i < j /\ calls[c].log[i].arg # calls[c].log[j].arg

\* C9: once an exit path has resolved the call, a later load signal does not
\* invoke the platform print trigger.
C9_NoPrintAfterExit ==
    \A c \in Calls :
        \A i \in Steps(c, {"resolve"}), j \in Steps(c, {"print"}) : j < i

\* C10: when the deadline timer fires, the promise is resolved with a
\* failure whose error contains the call's timeout value, onError (if given)
\* has been invoked with that error, and the iframe is detached from then on.
C10_TimeoutResult ==
    \A c \in Calls :
        calls[c].timer = "fired" =>
            /\ Resolved(c)
            /\ IsFailure(calls[c].promise.value)
            /\ Mentions(calls[c].promise.value.error,
                        ToString(TimeoutOf(calls[c].options)))
            /\ "onError" \in calls[c].options.given =>
                   \E i \in Steps(c, {"onError"}) :
                       calls[c].log[i].arg = calls[c].promise.value.error
            /\ c \notin body

C10_Witness ==
    \E c \in Calls :
        /\ calls[c].timer = "fired"
        /\ calls[c].options.timeout = <<CustomTimeout>>
        /\ calls[c].loadFired

\* The message of the call's timeout result.
TimeoutMsgOf(c) == TimeoutMsg(TimeoutOf(calls[c].options))

\* The resolve steps of the timeout handler.
TimeoutRuns(c) ==
    {i \in Steps(c, {"resolve"}) : calls[c].log[i].arg = TimeoutMsgOf(c)}

\* The runs of the success branch of onload (print() returned normally):
\* only that branch schedules the grace-delay teardown.
SuccessRuns(c) == Steps(c, {"scheduleCleanup"})

\* C11: for a live content node and either format, a run in which the load
\* signal fires before the deadline and print() returns normally resolves
\* with success = true, no error field and a message containing the
\* upper-cased format name.
C11_SuccessResult ==
    \A c \in Calls :
        ( /\ Live(c)
          /\ \E s \in SuccessRuns(c) : \A t \in TimeoutRuns(c) : s < t ) =>
            /\ Resolved(c)
            /\ calls[c].promise.value.success
            /\ "error" \notin DOMAIN calls[c].promise.value
            /\ Mentions(calls[c].promise.value.message,
                        ToUpperCase(calls[c].type))

Touched(c) == calls'[c] # calls[c] \/ (c \in body) # (c \in body')

\* C13: calls in flight together do not interfere: a step of one call leaves
\* the other call's iframe, timers, promise and log as they were, and each
\* call's written stylesheet and success message are those of its own format.
C13_NoInterference ==
    /\ [](\A c \in Calls :
            /\ calls[c].written # <<>> =>
                   calls[c].written[1] = PrintStyles(calls[c].type)
            /\ (Resolved(c) /\ calls[c].promise.value.success) =>
                   \A t \in PrintTypes :
                       Mentions(calls[c].promise.value.message, ToUpperCase(t))
                           <=> t = calls[c].type)
    /\ [][\A c, d \in Calls : (c # d /\ Touched(c)) => ~Touched(d)]_vars

C13_Witness ==
    \E c, d \in Calls :
        /\ calls[c].type # calls[d].type
        /\ calls[c].written # <<>> /\ calls[d].written # <<>>
        /\ calls[c].timer = "fired"
        /\ d \in body
        /\ calls[d].timer = "armed"

\* C14: the terminal callbacks agree with the result: a call resolved with
\* success = true had onSuccess invoked with the result's message and never
\* onError; a call resolved with success = false had onError invoked with the
\* result's error and never onSuccess.
C14_CallbacksAgree ==
    \A c \in Calls :
        (Resolved(c) /\ calls[c].options.given = Callbacks) =>
            LET value == calls[c].promise.value
            IN  IF value.success
                THEN /\ \E i \in Steps(c, {"onSuccess"}) :
                            calls[c].log[i].arg = value.message
                     /\ Steps(c, {"onError"}) = {}
                ELSE /\ \E i \in Steps(c, {"onError"}) :
                            calls[c].log[i].arg = value.error
                     /\ Steps(c, {"onSuccess"}) = {}

\* C15: every exit path other than the timeout cancels the deadline timer
\* before it resolves, and once the timer was cancelled the timeout handler
\* never runs: it is no longer pending and no timeout result is produced.
C15_TimerCancelled ==
    \A c \in Calls :
        LET resolves == Steps(c, {"resolve"})
            clears == Steps(c, {"clearTimeout"})
            others == {i \in resolves :
                          calls[c].log[i].arg \notin {TimeoutMsgOf(c), NotFoundMsg}}
        IN  /\ \A i \in others :
                   \E j \in clears :
                       j < i /\ \A k \in resolves : ~(j < k /\ k < i)
            /\ \A t \in TimeoutRuns(c), j \in clears : t < j
            /\ Cardinality(TimeoutRuns(c)) <= 1
            /\ clears # {} => calls[c].timer \in {"cleared", "fired"}

C15_Witness ==
    \E c, d \in Calls :
        /\ SuccessRuns(c) # {}
        /\ calls[c].grace = "fired"
        /\ calls[c].timer = "cleared"
        /\ calls[c].errCount = MaxErrors
        /\ calls[d].timer = "cleared"
        /\ calls[d].promise = [state |-> "resolved", value |-> Failure(NoDocumentMsg)]

\* A call in flight: its iframe was created and no exit path has run.
InFlight(c) ==
    /\ Count(c, "appendChild") >= 1
    /\ calls[c].promise.state = "pending"
    /\ Steps(c, {"resolve", "reject", "cleanup"}) = {}

\* C16: while a call is in flight its one staging iframe is attached to the
\* document, and over its whole lifetime a call attaches at most one iframe
\* and never attaches it again after removing it.
C16_OneIframeInFlight ==
    \A c \in Calls :
        /\ Count(c, "appendChild") <= 1
        /\ \A i \in Steps(c, {"appendChild"}), j \in Steps(c, {"removeChild"}) :
               i < j
        /\ InFlight(c) => c \in body
        /\ c \in body => Count(c, "appendChild") = 1

C16_Witness ==
    \E c, d \in Calls :
        /\ c # d
        /\ InFlight(c) /\ InFlight(d)
        /\ calls[c].handlers /\ calls[d].handlers

\* The steps of the success branch around its scheduleCleanup step s, in the
\* order of the code: print, onSuccess (if given), clearTimeout,
\* scheduleCleanup, resolve with the success message.
SuccessOrder(c, s) ==
    LET log == calls[c].log
        p == IF "onSuccess" \in calls[c].options.given THEN s - 3 ELSE s - 2
    IN  /\ p >= 1 /\ s + 1 <= Len(log)
        /\ log[p].ev = "print"
        /\ "onSuccess" \in calls[c].options.given =>
               log[s - 2] = [ev |-> "onSuccess", arg |-> SuccessMsg(calls[c].type)]
        /\ log[s - 1].ev = "clearTimeout"
        /\ log[s + 1] = [ev |-> "resolve", arg |-> SuccessMsg(calls[c].type)]

\* C17: on the success path print, onSuccess, clearTimeout, the scheduling
\* of the teardown and resolve happen in that order; when resolve is called
\* the iframe is still attached, and it is detached only by the grace-delay
\* timer firing later.
C17_SuccessOrder ==
    \A c \in Calls :
        \A s \in SuccessRuns(c) :
            /\ SuccessOrder(c, s)
            /\ \A j \in Steps(c, {"removeChild"}) : s + 1 < j
            /\ c \notin body <=> calls[c].grace = "fired"

\* The order of the steps alone, which every run of the success branch keeps.
SuccessOrderKept ==
    \A c \in Calls : \A s \in SuccessRuns(c) : SuccessOrder(c, s)

\* The onError and resolve steps of the failure exits taken after the iframe
\* was created (every failure but content-not-found).
FailureNotices(c) ==
    {i \in Steps(c, {"onError", "resolve"}) :
        calls[c].log[i].arg \notin {NotFoundMsg, SuccessMsg(calls[c].type)}}

\* C18: on every failure exit taken after the iframe was created, teardown
\* precedes notification: when onError is invoked and when resolve is called
\* the iframe has been removed from the document and the deadline timer is
\* not pending (it was cleared, or it is the timer that fired).
C18_TeardownBeforeNotice ==
    \A c \in Calls :
        \A i \in FailureNotices(c) :
            /\ \E j \in Steps(c, {"removeChild"}) : j < i
            /\ \/ calls[c].log[i].arg = TimeoutMsgOf(c)
               \/ \E j \in Steps(c, {"clearTimeout"}) : j < i
            /\ calls[c].timer # "armed"
            /\ c \notin body

C18_Witness ==
    \E c, d \in Calls :
        /\ calls[c].options.given = Callbacks
        /\ calls[d].options.given = Callbacks
        /\ \E i \in Steps(c, {"onError"}) :
               calls[c].log[i].arg \in {IframeErrorMsg(e) : e \in ErrorEvents}
        /\ \E i \in Steps(d, {"onError"}) :
               calls[d].log[i].arg \in {PrintErrorMsg(e) : e \in PrintErrors}
        /\ calls[c].promise.value.error # calls[d].promise.value.error

\* onStart is invoked exactly once, before the iframe is attached and before
\* the deadline timer is armed.
StartsFirst(c) ==
    /\ Count(c, "onStart") = 1
    /\ \A i \in Steps(c, {"onStart"}),
          j \in Steps(c, {"appendChild", "setTimeout"}) : i < j

\* C19: with onStart given, a call with a live content node invokes it
\* exactly once, before the iframe is created and the timer armed; a call
\* whose content is absent (null, or a ref holding null) never invokes it.
C19_OnStart ==
    \A c \in Calls :
        (calls[c].called /\ "onStart" \in calls[c].options.given) =>
            IF calls[c].element = "node"
            THEN StartsFirst(c)
            ELSE Count(c, "onStart") = 0

\* The same for the calls the code takes to have content (a truthy element).
StartsFirstWhenTruthy ==
    \A c \in Calls :
        (calls[c].called /\ "onStart" \in calls[c].options.given) =>
            IF calls[c].element # "none"
            THEN StartsFirst(c)
            ELSE Count(c, "onStart") = 0

\* C20: the caller's content node is left as it was on every path (same
\* parent, same markup; what is written to the iframe is a copy of its
\* markup), and document.body differs from what the caller had only by the
\* call's own iframe, between its appendChild and its removeChild.
C20_ContentUntouched ==
    /\ content = ContentNode
    /\ \A c \in Calls :
           /\ calls[c].written # <<>> =>
                  /\ calls[c].written[2] = content.innerHTML
                  /\ calls[c].clone.parent = "none"
           /\ c \in body <=>
                  (Count(c, "appendChild") = 1 /\ Count(c, "removeChild") = 0)
    /\ body \subseteq Calls

C20_Witness ==
    \E c, d \in Calls :
        /\ c # d
        /\ calls[c].written # <<>> /\ calls[d].written # <<>>
        /\ Count(c, "removeChild") = 1
        /\ d \in body

\* ------------------------------------------------------------------------
\* Callbacks that throw
\* ------------------------------------------------------------------------

\* The runs of onload in which print() returned normally (logged with no
\* thrown value).
PrintReturned(c) ==
    {i \in Steps(c, {"print"}) : calls[c].log[i].arg = <<>>}

\* print() returned normally on the call's first exit path: no teardown,
\* failure notice or settlement came before it.
PrintReturnedFirst(c) ==
    \E i \in PrintReturned(c) :
        \A j \in Steps(c, {"cleanup", "onError", "resolve", "reject"}) : i < j

\* The results that report a failure of the print trigger.
IsPrintFailure(result) ==
    /\ ~result.success
    /\ result.message[1] = PrintErrorMsg("")[1]

\* C21: a call is resolved with success = true if and only if print() was
\* invoked and returned normally as the call's first exit path, and a call
\* whose print() returned normally is never resolved with a print-trigger
\* failure result, whatever its callbacks do.
C21_ResultReflectsPrint ==
    \A c \in Calls :
        Resolved(c) =>
            /\ calls[c].promise.value.success <=> PrintReturnedFirst(c)
            /\ PrintReturned(c) # {} => ~IsPrintFailure(calls[c].promise.value)

\* A callback of the call has thrown when invoked.
Threw(c) == Steps(c, calls[c].options.throws) # {}

\* The iframe of the call is gone, or a pending timer will remove it.
TornDown(c) ==
    c \in body => calls[c].timer = "armed" \/ calls[c].grace = "armed"

\* C22: once the handler in which onStart, onSuccess or onError threw has
\* ended, the call is resolved with a PrintResult (neither rejected nor left
\* pending), and the staging iframe it attached is removed or has its removal
\* pending.  Calls given a ref that holds null are left out: C4 is about them.
C22_ThrowingCallbackStillResolves ==
    \A c \in Calls :
        (Threw(c) /\ calls[c].element \in {"none", "node"}) =>
            /\ Resolved(c)
            /\ calls[c].promise.value.success \in BOOLEAN
            /\ TornDown(c)

\* What does hold of C22: a throwing callback never keeps the iframe of the
\* call attached.
ThrowStillTearsDown ==
    \A c \in Calls :
        (Threw(c) /\ calls[c].element \in {"none", "node"}) => c \notin body

====
